---- MODULE Spec2Model ----
(***************************************************************************)
(* Model of the batched, cached, rate-limited page-extraction pipeline of  *)
(* doc_parser: PDFParser (parsers/pdf/parser.py), the RateLimiter          *)
(* semaphore (utils/async_batcher.py), CacheManager (utils/cache.py) and   *)
(* BaseParser.parse (core/base.py).                                        *)
(*                                                                         *)
(* Strings are modelled as the list of their lines (s.split("\n")), a line *)
(* being an integer: 0 is the empty line, n > 0 is the text the vision     *)
(* model returns for page n.  The empty string is the one-line list <<0>>. *)
(***************************************************************************)
EXTENDS Integers, Sequences, FiniteSets, TLC

\* ------------------------------------------------------------------ bounds
MaxPages == 3
MaxBatchSize == 3
MaxConcurrent == 2
MaxFaults == 1
\* The scenario of the claims: a first request and the next attempt.
NumRuns == 2
\* CacheManager on its own: keys, concurrent callers, operations, payloads, time.
MaxKeys == 1
MaxProcs == 2
MaxCacheOps == 3
MaxPayload == 2
MaxTTL == 1
MaxClock == 3
MaxCallers == 2
MaxParses == 2
MaxDocPages == 2
MaxKeyRuns == 2
\* _combine_results on its own: page strings of one line, and fewer of several lines.
MaxResults == 6
MaxMultiResults == 2
MaxLines == 4
\* AsyncBatcher: add calls, batch sizes; run_with_retry: max_retries.
MaxAdders == 4
MaxBatcherSize == 3
MaxRetries == 3

VARIABLES
    \* ---- PDF pipeline (parsers/pdf/parser.py)
    numPages,          \* len(images): pages the rasterizer returns
    batch_size,        \* self.batch_size
    max_concurrent,    \* config.max_workers given to RateLimiter
    cache,             \* page number -> per-page cache entry '<stem>_page_<n>'
    cacheAtStart,      \* the cache as it was when the current request started
    run,               \* number of the current request (0: none yet)
    phase,             \* "idle" | "dispatching" | "done" | "failed"
    pc,                \* task -> position of the _process_batch coroutine
    cached_pages,      \* task -> list of [idx, content] cache hits
    pages_to_process,  \* task -> list of [idx, page] cache misses
    extracted,         \* task -> content returned by extractor.extract
    written,           \* task -> number of cache_set calls completed
    batch_result,      \* task -> all_results of the finished batch
    error,             \* task -> the exception that left _process_batch
    waited,            \* task -> the task was queued in the semaphore's waiters
    semValue,          \* asyncio.Semaphore._value
    waiters,           \* asyncio.Semaphore._waiters (FIFO)
    completed,         \* tasks in the order they completed (as_completed)
    outcome,           \* run -> "none" | "ok" | "failed"
    raised,            \* run -> the exception that left _parse
    results,           \* run -> list of page strings given to _combine_results
    content,           \* run -> ParseResult.content
    calls,             \* run -> number of extractor.extract calls
    faults,            \* I/O and service failures the environment may still inject
    \* ---- CacheManager on the file system (utils/cache.py)
    dataFile,          \* key -> inode of '<key>.json' (0: no such file)
    metaFile,          \* key -> inode of '<key>.meta.json' (0: no such file)
    inode,             \* inode -> content (0: empty; data: the payload; meta: created + 1)
    nextInode,         \* the next inode a created file gets
    ttl,               \* self.ttl (NoTTL: None)
    clock,             \* datetime.now()
    lockHolder,        \* the caller holding self._lock (0: free)
    cmProc,            \* caller -> the CacheManager call it is in and where
    cmRet,             \* caller -> what its last get returned or raised
    opsLeft,           \* calls the callers may still start
    cmHist,            \* caller -> its call's start time, and whether others acted in it
    lastSet,           \* key -> the last completed set no later writer or delete followed
    \* ---- BaseParser.parse (core/base.py) around PDFParser._parse
    fileState,         \* the input document on disk
    hasExt,            \* the path has a supported extension (.pdf)
    use_cache,         \* settings.use_cache
    output_format,     \* settings.output_format
    resultCache,       \* cache key -> the ParseResult stored under it
    parseProc,         \* caller -> where its parse call is, and its locals
    parseRet,          \* caller -> what its last parse call returned or raised
    rasterCalls,       \* caller -> _pdf_to_images calls of its last parse call
    processCalls,      \* caller -> _process_pages calls of its last parse call
    parsesLeft,        \* parse calls the callers may still start
    parserKind,        \* the parser class: PDFParser or a structured parser
    docPages,          \* pages of the input document
    parseLog,          \* caller -> what its last parse call did
    parseRuns,         \* cache key -> _parse executions under it
    parseHist,         \* whether calls overlapped; cache key -> the result last returned;
                       \* settings.output_format before the first call
    \* ---- page cache keys across runs (parsers/pdf/parser.py)
    pdf_path,          \* the document of the current run
    first_page,        \* the first page the rasterizer was asked for
    keyTask,           \* the batch whose keys are being built (0: no run)
    keyIdx,            \* the position in that batch
    pageKeys,          \* (document, document page) -> the keys it was given
    keyRunsLeft,       \* runs that may still start
    \* ---- PDFParser._combine_results on its own
    combineInput,      \* the list of page strings it is called with
    combineOutput,     \* the string it returned (NoContent: not called yet)
    \* ---- AsyncBatcher in batch mode and run_with_retry (utils/async_batcher.py,
    \* utils/async_helpers.py)
    batcher,           \* which AsyncBatcher class, and self.batch_size
    queue,             \* self._queue: the items added and not yet taken, oldest first
    task,              \* self._task: where _process_batches is, and its local `batch`
    futures,           \* adder -> the future its add call awaits
    batchLog,          \* the items in the order added; the batches given to process_func
    retry              \* one run_with_retry call: its arguments and where it is

pipeVars == <<numPages, batch_size, max_concurrent, cache, cacheAtStart, run, phase,
              pc, cached_pages, pages_to_process, extracted, written, batch_result,
              error, waited, semValue, waiters, completed, outcome, raised, results,
              content, calls, faults>>

cmVars == <<dataFile, metaFile, inode, nextInode, ttl, clock, lockHolder, cmProc, cmRet,
            opsLeft, cmHist, lastSet>>

\* What the calls do not change: the input and the parser's configuration.
parseEnv == <<fileState, hasExt, use_cache, parserKind, docPages>>

parseVars == <<fileState, hasExt, use_cache, output_format, resultCache, parseProc,
               parseRet, rasterCalls, processCalls, parsesLeft, parserKind, docPages,
               parseLog, parseRuns, parseHist>>

keyVars == <<pdf_path, first_page, keyTask, keyIdx, pageKeys, keyRunsLeft>>

combineVars == <<combineInput, combineOutput>>

asyncVars == <<batcher, queue, task, futures, batchLog, retry>>

vars == <<pipeVars, cmVars, parseVars, keyVars, combineVars, asyncVars>>

\* ------------------------------------------------------------------ strings
Blank == 0
EmptyStr == <<Blank>>
\* A line of white space only, and `not line.strip()`.
Space == -1
IsBlank(line) == line \in {Blank, Space}

\* The text the vision model returns for the image of page p (_extract_single).
PageText(p) == <<p>>

RECURSIVE JoinDoubleNewline(_)
\* ("\n\n".join(strs)).split("\n"): the lines of each string, one empty line between.
JoinDoubleNewline(strs) ==
    IF Len(strs) = 0 THEN EmptyStr
    ELSE IF Len(strs) = 1 THEN strs[1]
    ELSE strs[1] \o <<Blank>> \o JoinDoubleNewline(Tail(strs))

\* A loop that keeps every line.
CleanLinesKeepAll(lines, cleaned) == cleaned \o lines

RECURSIVE CleanLines(_, _)
\* The loop of _combine_results: a blank line is skipped when nothing was kept yet
\* or the last kept line is blank.
CleanLines(lines, cleaned) ==
    IF lines = <<>> THEN cleaned
    ELSE LET line == Head(lines)
             skip == IsBlank(line) /\ (cleaned = <<>> \/ IsBlank(cleaned[Len(cleaned)]))
         IN CleanLines(Tail(lines), IF skip THEN cleaned ELSE Append(cleaned, line))

\* "\n".join(cleaned_lines) read back as a list of lines: joining no line at all
\* gives the empty string.
JoinNewline(lines) == IF lines = <<>> THEN EmptyStr ELSE lines

\* PDFParser._combine_results
CombineResults(strs) == JoinNewline(CleanLines(JoinDoubleNewline(strs), <<>>))

\* VisionExtractor._extract_batch: the single extractions joined by two newlines.
ExtractBatch(pages) == JoinDoubleNewline([i \in 1..Len(pages) |-> PageText(pages[i])])

\* VisionExtractor.extract on what _process_uncached_pages passes: one image, or
\* the list of the missed images.
ExtractResult(pending) ==
    IF Len(pending) = 1 THEN PageText(pending[1].page)
    ELSE ExtractBatch([i \in 1..Len(pending) |-> pending[i].page])

\* ------------------------------------------------------------------ cache entries
NoEntry == [state |-> "absent", content |-> <<>>, page |-> 0]
CorruptEntry == [state |-> "corrupt", content |-> <<>>, page |-> 0]
OkEntry(c, p) == [state |-> "ok", content |-> c, page |-> p]

\* ------------------------------------------------------------------ batches
Tasks == 1..MaxPages

\* _process_pages: range(0, len(images), batch_size)
NumBatches(n, b) == (n + b - 1) \div b

\* The first 0-based page index of batch t.
BatchStart(t) == (t - 1) * batch_size

\* len(images[i : i + batch_size])
BatchLen(t) ==
    LET rest == numPages - BatchStart(t)
    IN IF rest < batch_size THEN rest ELSE batch_size

\* page_nums = list(range(i + 1, i + len(batch) + 1)), entry k (0-based)
PageNum(t, k) == BatchStart(t) + k + 1

LiveTasks == 1..NumBatches(numPages, batch_size)

RECURSIVE MakeBatchesUnsliced(_, _, _)
\* Batches cut without the slice's clipping at the end of the list.
MakeBatchesUnsliced(i, n, b) ==
    IF i >= n THEN <<>>
    ELSE <<[batch |-> [k \in 1..b |-> i + k - 1], page_nums |-> [k \in 1..b |-> i + k]]>>
             \o MakeBatchesUnsliced(i + b, n, b)

RECURSIVE MakeBatches(_, _, _)
\* `for i in range(0, len(images), self.batch_size)`: the list `batches` built
\* from index i on, each entry the 0-based indices of images[i : i + batch_size]
\* and page_nums = list(range(i + 1, i + len(batch) + 1)).
MakeBatches(i, n, b) ==
    IF i >= n THEN <<>>
    ELSE LET len == IF n - i < b THEN n - i ELSE b
         IN <<[batch |-> [k \in 1..len |-> i + k - 1],
               page_nums |-> [k \in 1..len |-> i + k]]>>
                \o MakeBatches(i + b, n, b)

\* ------------------------------------------------------------------ limiter
InBlock(t) == pc[t] \in {"lookup", "extract", "extracting", "write"}
Terminal(t) == pc[t] \in {"none", "done", "failed"}

\* A weakened guard: admits a task when no permit is left.
CanAcquireOffByOne == semValue >= 0 /\ waiters = <<>>

\* asyncio.Semaphore.acquire's fast path, `not self.locked()`, behind
\* AsyncBatcher.__aenter__: a permit is free and nobody is queued.
CanAcquire == semValue > 0 /\ waiters = <<>>

\* A release that is skipped when the guarded block raised.
AExitSkipOnError(failed) ==
    IF failed THEN [value |-> semValue, waiters |-> waiters, woken |-> {}]
    ELSE IF waiters = <<>>
         THEN [value |-> semValue + 1, waiters |-> waiters, woken |-> {}]
         ELSE [value |-> semValue, waiters |-> Tail(waiters), woken |-> {Head(waiters)}]

\* A release that only counts the permit back and never hands it to a waiter.
AExitNoWakeUp(failed) == [value |-> semValue + 1, waiters |-> waiters, woken |-> {}]

\* AsyncBatcher.__aexit__ (through RateLimiter.__aexit__): semaphore.release(),
\* whatever exc_type is.  release() hands the permit to the first waiter when
\* there is one, and otherwise counts it back.
AExit(failed) ==
    IF waiters = <<>>
    THEN [value |-> semValue + 1, waiters |-> waiters, woken |-> {}]
    ELSE [value |-> semValue, waiters |-> Tail(waiters), woken |-> {Head(waiters)}]

\* The end of `async with self.rate_limiter:` in _process_batch: task t leaves the
\* block at position newpc, and a woken waiter enters it.
LeaveBlock(t, newpc, failed) ==
    LET r == AExit(failed)
    IN /\ semValue' = r.value
       /\ waiters' = r.waiters
       /\ pc' = [u \in Tasks |-> IF u = t THEN newpc
                                 ELSE IF u \in r.woken THEN "lookup" ELSE pc[u]]
       /\ completed' = Append(completed, t)

\* The guarded block raised: the exception leaves _process_batch.
TaskRaise(t, exc) ==
    /\ LeaveBlock(t, "failed", TRUE)
    /\ error' = [error EXCEPT ![t] = exc]
    /\ batch_result' = batch_result

RECURSIVE InsertByIdx(_, _)
InsertByIdx(sorted, e) ==
    IF sorted = <<>> THEN <<e>>
    ELSE IF e.idx < Head(sorted).idx THEN <<e>> \o sorted
    ELSE <<Head(sorted)>> \o InsertByIdx(Tail(sorted), e)

RECURSIVE SortByIdx(_)
\* all_results.sort(key=lambda tpl: tpl[0]): stable, ascending by index.
SortByIdx(s) ==
    IF s = <<>> THEN <<>>
    ELSE InsertByIdx(SortByIdx(SubSeq(s, 1, Len(s) - 1)), s[Len(s)])

\* The return value of _process_uncached_pages: nothing when no page missed, the
\* page's entry in single mode, and in batch mode ONE entry, at indices[0],
\* holding the combined string.
NewResults(pending, text) ==
    IF pending = <<>> THEN <<>>
    ELSE <<[idx |-> pending[1].idx, content |-> text]>>

\* The tail of _process_batch: cached_pages + new_results, sorted by index.
AllResults(cached, pending, text) == SortByIdx(cached \o NewResults(pending, text))

\* Task t returns from _process_batch.
TaskReturn(t, cached, pending, text) ==
    /\ LeaveBlock(t, "done", FALSE)
    /\ error' = error
    /\ batch_result' = [batch_result EXCEPT ![t] = AllResults(cached, pending, text)]

\* ------------------------------------------------------------------ pipeline
EmptyTasks(v) == [t \in Tasks |-> v]

Quiescent == \A t \in Tasks : Terminal(t)

\* PDFParser._parse up to the gather of _process_pages: the rasterizer returns
\* numPages images, the batches are formed, one _process_batch task per batch is
\* created.  A next request starts once the tasks of the previous one have ended.
StartRun ==
    /\ phase \in {"idle", "done", "failed"}
    /\ run < NumRuns
    /\ Quiescent
    /\ run' = run + 1
    /\ phase' = "dispatching"
    /\ cacheAtStart' = cache
    /\ pc' = [t \in Tasks |-> IF t \in LiveTasks THEN "created" ELSE "none"]
    /\ cached_pages' = EmptyTasks(<<>>)
    /\ pages_to_process' = EmptyTasks(<<>>)
    /\ extracted' = EmptyTasks(<<>>)
    /\ written' = EmptyTasks(0)
    /\ batch_result' = EmptyTasks(<<>>)
    /\ error' = EmptyTasks("none")
    /\ waited' = EmptyTasks(FALSE)
    /\ completed' = <<>>
    /\ UNCHANGED <<numPages, batch_size, max_concurrent, cache, semValue, waiters,
                   outcome, raised, results, content, calls, faults>>
    /\ UNCHANGED <<cmVars, parseVars, keyVars, combineVars, asyncVars>>

\* `async with self.rate_limiter:` entered by task t: it takes a permit, or it is
\* queued behind the tasks already waiting.
TaskStart(t) ==
    /\ pc[t] = "created"
    /\ IF CanAcquire
       THEN /\ semValue' = semValue - 1
            /\ pc' = [pc EXCEPT ![t] = "lookup"]
            /\ UNCHANGED <<waiters, waited>>
       ELSE /\ waiters' = Append(waiters, t)
            /\ pc' = [pc EXCEPT ![t] = "waiting"]
            /\ waited' = [waited EXCEPT ![t] = TRUE]
            /\ semValue' = semValue
    /\ UNCHANGED <<numPages, batch_size, max_concurrent, cache, cacheAtStart, run, phase,
                   cached_pages, pages_to_process, extracted, written, batch_result,
                   error, completed, outcome, raised, results, content, calls, faults>>
    /\ UNCHANGED <<cmVars, parseVars, keyVars, combineVars, asyncVars>>

\* The 0-based index _get_cached_pages looks up next in task t.
LookupIdx(t) == Len(cached_pages[t]) + Len(pages_to_process[t])

\* A lookup that takes every page for a miss.
IsHitNever(entry) == FALSE

\* `if cached:` in _get_cached_pages: the entry was read and is a non-empty dict.
IsHit(entry) == entry.state = "ok"

\* One round of the loop of _get_cached_pages in task t: cache_get of the page's
\* key.  A corrupt file makes CacheManager.get raise CacheError, which nothing in
\* _process_batch catches.  After the last page, a batch without misses returns
\* at once (_process_uncached_pages returns []).
Lookup(t) ==
    /\ pc[t] = "lookup"
    /\ LET i == LookupIdx(t)
           p == PageNum(t, i)
           entry == cache[p]
           hit == IsHit(entry)
           cached == IF hit THEN Append(cached_pages[t], [idx |-> i, content |-> entry.content])
                     ELSE cached_pages[t]
           pending == IF hit THEN pages_to_process[t]
                      ELSE Append(pages_to_process[t], [idx |-> i, page |-> p])
           last == i + 1 = BatchLen(t)
       IN IF entry.state = "corrupt"
          THEN /\ TaskRaise(t, "CacheError")
               /\ UNCHANGED <<cached_pages, pages_to_process>>
          ELSE /\ cached_pages' = [cached_pages EXCEPT ![t] = cached]
               /\ pages_to_process' = [pages_to_process EXCEPT ![t] = pending]
               /\ IF last /\ pending = <<>>
                  THEN TaskReturn(t, cached, pending, <<>>)
                  ELSE /\ pc' = [pc EXCEPT ![t] = IF last THEN "extract" ELSE "lookup"]
                       /\ UNCHANGED <<semValue, waiters, completed, batch_result, error>>
    /\ UNCHANGED <<numPages, batch_size, max_concurrent, cache, cacheAtStart, run, phase,
                   extracted, written, waited, outcome, raised, results, content, calls,
                   faults>>
    /\ UNCHANGED <<cmVars, parseVars, keyVars, combineVars, asyncVars>>

\* CacheManager.get fails on an existing file (OSError): CacheError leaves the batch.
LookupFault(t) ==
    /\ pc[t] = "lookup"
    /\ faults > 0
    /\ cache[PageNum(t, LookupIdx(t))].state # "absent"
    /\ faults' = faults - 1
    /\ TaskRaise(t, "CacheError")
    /\ UNCHANGED <<numPages, batch_size, max_concurrent, cache, cacheAtStart, run, phase,
                   cached_pages, pages_to_process, extracted, written, waited,
                   outcome, raised, results, content, calls>>
    /\ UNCHANGED <<cmVars, parseVars, keyVars, combineVars, asyncVars>>

\* _process_uncached_pages calls extractor.extract: once per batch with misses.
ExtractCall(t) ==
    /\ pc[t] = "extract"
    /\ pc' = [pc EXCEPT ![t] = "extracting"]
    /\ calls' = [calls EXCEPT ![run] = @ + 1]
    /\ UNCHANGED <<numPages, batch_size, max_concurrent, cache, cacheAtStart, run, phase,
                   cached_pages, pages_to_process, extracted, written, batch_result,
                   error, waited, semValue, waiters, completed, outcome, raised, results,
                   content, faults>>
    /\ UNCHANGED <<cmVars, parseVars, keyVars, combineVars, asyncVars>>

\* The extraction returns its string.
ExtractReturn(t) ==
    /\ pc[t] = "extracting"
    /\ extracted' = [extracted EXCEPT ![t] = ExtractResult(pages_to_process[t])]
    /\ pc' = [pc EXCEPT ![t] = "write"]
    /\ UNCHANGED <<numPages, batch_size, max_concurrent, cache, cacheAtStart, run, phase,
                   cached_pages, pages_to_process, written, batch_result, error, waited,
                   semValue, waiters, completed, outcome, raised, results, content, calls,
                   faults>>
    /\ UNCHANGED <<cmVars, parseVars, keyVars, combineVars, asyncVars>>

\* The extraction service fails: the exception leaves _process_batch.
ExtractRaise(t) ==
    /\ pc[t] = "extracting"
    /\ faults > 0
    /\ faults' = faults - 1
    /\ TaskRaise(t, "ExtractionError")
    /\ UNCHANGED <<numPages, batch_size, max_concurrent, cache, cacheAtStart, run, phase,
                   cached_pages, pages_to_process, extracted, written, waited,
                   outcome, raised, results, content, calls>>
    /\ UNCHANGED <<cmVars, parseVars, keyVars, combineVars, asyncVars>>

\* A loop that caches the first missed page only.
CacheSetCountFirstOnly(pending) == 1

\* The number of cache_set calls of _process_uncached_pages: one in single mode,
\* one per missed page (zip(indices, page_numbers)) in batch mode.
CacheSetCount(pending) == Len(pending)

\* One cache_set of _process_uncached_pages in task t: the page's entry
\* {"content": content, "page": page_num}, content being the whole string the one
\* extraction call returned.  After the last one the batch returns.
Write(t) ==
    /\ pc[t] = "write"
    /\ LET pending == pages_to_process[t]
           p == pending[written[t] + 1].page
           last == written[t] + 1 >= CacheSetCount(pending)
       IN /\ cache' = [cache EXCEPT ![p] = OkEntry(extracted[t], p)]
          /\ written' = [written EXCEPT ![t] = @ + 1]
          /\ IF last
             THEN TaskReturn(t, cached_pages[t], pending, extracted[t])
             ELSE UNCHANGED <<pc, semValue, waiters, completed, batch_result, error>>
    /\ UNCHANGED <<numPages, batch_size, max_concurrent, cacheAtStart, run, phase,
                   cached_pages, pages_to_process, extracted, waited,
                   outcome, raised, results, content, calls, faults>>
    /\ UNCHANGED <<cmVars, parseVars, keyVars, combineVars, asyncVars>>

\* CacheManager.set fails (OSError): the file is left as it was (open failed) or
\* truncated (the write failed), and CacheError leaves the batch.
WriteFault(t) ==
    /\ pc[t] = "write"
    /\ faults > 0
    /\ faults' = faults - 1
    /\ LET p == pages_to_process[t][written[t] + 1].page
       IN \E e \in {cache[p], CorruptEntry} : cache' = [cache EXCEPT ![p] = e]
    /\ TaskRaise(t, "CacheError")
    /\ UNCHANGED <<numPages, batch_size, max_concurrent, cacheAtStart, run, phase,
                   cached_pages, pages_to_process, extracted, written, waited,
                   outcome, raised, results, content, calls>>
    /\ UNCHANGED <<cmVars, parseVars, keyVars, combineVars, asyncVars>>

Contents(res) == [i \in 1..Len(res) |-> res[i].content]

RECURSIVE Flatten(_)
\* `for batch_result in batch_results: results.extend(batch_result)`
Flatten(lists) ==
    IF lists = <<>> THEN <<>> ELSE Head(lists) \o Flatten(Tail(lists))

\* A gather that returns the batch results in the order the tasks completed.
GatherResultsCompletionOrder ==
    [k \in 1..Len(completed) |-> Contents(batch_result[completed[k]])]

\* tqdm.gather: the results of the tasks in the order the tasks were given,
\* each `[content for _, content in all_results]`.
GatherResults ==
    [t \in 1..NumBatches(numPages, batch_size) |-> Contents(batch_result[t])]

NoContent == <<>>

\* _combine_results has not been called on its own.
CombineUnused == combineInput = <<>> /\ combineOutput = NoContent

\* Every task returned: _process_pages flattens, _parse combines and returns.
GatherReturn ==
    /\ phase = "dispatching"
    /\ \A t \in LiveTasks : pc[t] = "done"
    /\ phase' = "done"
    /\ outcome' = [outcome EXCEPT ![run] = "ok"]
    /\ results' = [results EXCEPT ![run] = Flatten(GatherResults)]
    /\ content' = [content EXCEPT ![run] = CombineResults(Flatten(GatherResults))]
    /\ UNCHANGED <<numPages, batch_size, max_concurrent, cache, cacheAtStart, run,
                   pc, cached_pages, pages_to_process, extracted, written, batch_result,
                   error, waited, semValue, waiters, completed, raised, calls, faults>>
    /\ UNCHANGED <<cmVars, parseVars, keyVars, combineVars, asyncVars>>

\* The first task, in completion order, that raised.
FirstFailed ==
    LET k == CHOOSE i \in 1..Len(completed) :
                 /\ pc[completed[i]] = "failed"
                 /\ \A j \in 1..(i - 1) : pc[completed[j]] # "failed"
    IN completed[k]

\* A task raised: the exception leaves the gather, _process_pages and _parse.
\* No ParseResult is built; the other tasks keep running.
GatherRaise ==
    /\ phase = "dispatching"
    /\ \E t \in LiveTasks : pc[t] = "failed"
    /\ phase' = "failed"
    /\ outcome' = [outcome EXCEPT ![run] = "failed"]
    /\ raised' = [raised EXCEPT ![run] = error[FirstFailed]]
    /\ UNCHANGED <<numPages, batch_size, max_concurrent, cache, cacheAtStart, run,
                   pc, cached_pages, pages_to_process, extracted, written, batch_result,
                   error, waited, semValue, waiters, completed, results, content, calls,
                   faults>>
    /\ UNCHANGED <<cmVars, parseVars, keyVars, combineVars, asyncVars>>

\* ------------------------------------------------------------------ CacheManager
CacheKeys == 1..MaxKeys
Procs == 1..MaxProcs
Payloads == 1..MaxPayload
\* A set creates at most two files; the initial entries hold two each.
Inodes == 1..(2 * MaxCacheOps + 2 * MaxKeys)

NoFile == 0
EmptyContent == 0

IdleProc == [op |-> "idle", pos |-> "idle", key |-> 0, data |-> 0, handle |-> 0, created |-> 0]
NoRet == [kind |-> "none", value |-> 0, cause |-> "none"]
RetAbsent == [kind |-> "absent", value |-> 0, cause |-> "none"]
RetValue(v) == [kind |-> "value", value |-> v, cause |-> "none"]
RetError(c) == [kind |-> "CacheError", value |-> 0, cause |-> c]
RetDone == [kind |-> "done", value |-> 0, cause |-> "none"]

\* ttl: timedelta | None = None
NoTTL == -1

\* No completed set stands for the key.
NoSet == [payload |-> 0, created |-> 0, stamp |-> 0]

NoHist ==
    [called |-> 0, overlapped |-> FALSE, disturbed |-> FALSE, stamp |-> 0, seen |-> NoSet]

\* A step of p happens inside the unfinished calls of the others; the history
\* of p's own call is dropped when the step ends it.
OthersOverlapped(p) ==
    [q \in Procs |-> IF q # p /\ cmProc[q].op # "idle"
                     THEN [cmHist[q] EXCEPT !.overlapped = TRUE]
                     ELSE IF q = p /\ cmProc'[p].op = "idle" THEN NoHist
                     ELSE cmHist[q]]

\* p starts a call at the present time, inside the unfinished calls of others
\* or alone.
HistCall(p) ==
    [OthersOverlapped(p) EXCEPT ![p] =
        IF cmProc'[p].op = "idle" THEN NoHist
        ELSE [called |-> clock,
              overlapped |-> \E q \in Procs \ {p} : cmProc[q].op # "idle",
              disturbed |-> FALSE,
              stamp |-> opsLeft,
              seen |-> IF cmProc'[p].op = "get" THEN lastSet[cmProc'[p].key] ELSE NoSet]]

\* p starts a set, delete or clear touching the keys ks: the history of that
\* call, and the unfinished sets of others on those keys have been disturbed.
HistWriterCall(p, ks) ==
    [q \in Procs |-> IF q # p /\ cmProc[q].op = "set" /\ cmProc[q].key \in ks
                     THEN [HistCall(p)[q] EXCEPT !.disturbed = TRUE]
                     ELSE HistCall(p)[q]]

\* set(key, ...) is called: the set that stood for the key is being replaced.
LastSetCalled(k) == [lastSet EXCEPT ![k] = NoSet]

\* The set of p completes: it stands for its key unless another set of the key
\* is under way or a delete, clear or set of the key was called during it.
LastSetCompleted(p) ==
    [lastSet EXCEPT ![cmProc[p].key] =
        IF \/ cmHist[p].disturbed
           \/ \E q \in Procs \ {p} : cmProc[q].op = "set" /\ cmProc[q].key = cmProc[p].key
        THEN NoSet
        ELSE [payload |-> cmProc[p].data, created |-> cmProc[p].created,
              stamp |-> cmHist[p].stamp]]

\* A call of proc p ends with result r.
Finish(p, r) ==
    /\ cmProc' = [cmProc EXCEPT ![p] = IdleProc]
    /\ cmRet' = [cmRet EXCEPT ![p] = r]

\* The content json.loads is given: a file read through an open handle.
ReadHandle(p) == inode[cmProc[p].handle]

\* `datetime.now() - created > self.ttl` in CacheManager.get
Expired(created) == clock - created > ttl

\* CacheManager.get up to its first await: `if not cache_path.exists(): return
\* None`, then `if self.ttl and meta_path.exists()` chooses the file opened first.
GetCall(p, k) ==
    /\ cmProc[p].op = "idle"
    /\ opsLeft > 0
    /\ opsLeft' = opsLeft - 1
    /\ IF dataFile[k] = NoFile
       THEN Finish(p, RetAbsent)
       ELSE /\ cmProc' = [cmProc EXCEPT ![p] =
                    [IdleProc EXCEPT !.op = "get", !.key = k,
                        !.pos = IF ttl > 0 /\ metaFile[k] # NoFile
                                THEN "open_meta" ELSE "open_data"]]
            /\ cmRet' = [cmRet EXCEPT ![p] = NoRet]
    /\ UNCHANGED <<dataFile, metaFile, inode, nextInode, ttl, clock, lockHolder>>
    /\ cmHist' = HistCall(p)
    /\ lastSet' = lastSet
    /\ UNCHANGED <<pipeVars, parseVars, keyVars, combineVars, asyncVars>>

\* aiofiles.open(meta_path): FileNotFoundError (an OSError) when the file is gone.
GetOpenMeta(p) ==
    /\ cmProc[p].op = "get"
    /\ cmProc[p].pos = "open_meta"
    /\ IF metaFile[cmProc[p].key] = NoFile
       THEN Finish(p, RetError("OSError"))
       ELSE /\ cmProc' = [cmProc EXCEPT ![p].pos = "read_meta",
                                        ![p].handle = metaFile[cmProc[p].key]]
            /\ cmRet' = cmRet
    /\ UNCHANGED <<dataFile, metaFile, inode, nextInode, ttl, clock, lockHolder, opsLeft>>
    /\ cmHist' = OthersOverlapped(p)
    /\ lastSet' = lastSet
    /\ UNCHANGED <<pipeVars, parseVars, keyVars, combineVars, asyncVars>>

\* metadata = json.loads(await f.read()); the file is closed (an await) before
\* the age is tested.
GetReadMeta(p) ==
    /\ cmProc[p].op = "get"
    /\ cmProc[p].pos = "read_meta"
    /\ LET c == ReadHandle(p)
       IN IF c = EmptyContent
          THEN Finish(p, RetError("JSONDecodeError"))
          ELSE /\ cmProc' = [cmProc EXCEPT ![p].pos = "check_ttl", ![p].handle = 0,
                                           ![p].created = c - 1]
               /\ cmRet' = cmRet
    /\ UNCHANGED <<dataFile, metaFile, inode, nextInode, ttl, clock, lockHolder, opsLeft>>
    /\ cmHist' = OthersOverlapped(p)
    /\ lastSet' = lastSet
    /\ UNCHANGED <<pipeVars, parseVars, keyVars, combineVars, asyncVars>>

\* created = datetime.fromisoformat(metadata["created"]) and the expiry test: an
\* expired entry is deleted (CacheManager.delete: both files unlinked, no await)
\* and None returned.
GetCheckExpiry(p) ==
    /\ cmProc[p].op = "get"
    /\ cmProc[p].pos = "check_ttl"
    /\ LET k == cmProc[p].key
       IN IF Expired(cmProc[p].created)
          THEN /\ dataFile' = [dataFile EXCEPT ![k] = NoFile]
               /\ metaFile' = [metaFile EXCEPT ![k] = NoFile]
               /\ Finish(p, RetAbsent)
          ELSE /\ cmProc' = [cmProc EXCEPT ![p].pos = "open_data"]
               /\ UNCHANGED <<dataFile, metaFile, cmRet>>
    /\ UNCHANGED <<inode, nextInode, ttl, clock, lockHolder, opsLeft>>
    /\ cmHist' = OthersOverlapped(p)
    /\ lastSet' = lastSet
    /\ UNCHANGED <<pipeVars, parseVars, keyVars, combineVars, asyncVars>>

\* aiofiles.open(cache_path)
GetOpenData(p) ==
    /\ cmProc[p].op = "get"
    /\ cmProc[p].pos = "open_data"
    /\ IF dataFile[cmProc[p].key] = NoFile
       THEN Finish(p, RetError("OSError"))
       ELSE /\ cmProc' = [cmProc EXCEPT ![p].pos = "read_data",
                                        ![p].handle = dataFile[cmProc[p].key]]
            /\ cmRet' = cmRet
    /\ UNCHANGED <<dataFile, metaFile, inode, nextInode, ttl, clock, lockHolder, opsLeft>>
    /\ cmHist' = OthersOverlapped(p)
    /\ lastSet' = lastSet
    /\ UNCHANGED <<pipeVars, parseVars, keyVars, combineVars, asyncVars>>

\* data = json.loads(await f.read()); return data.  An empty file is not JSON.
GetReadData(p) ==
    /\ cmProc[p].op = "get"
    /\ cmProc[p].pos = "read_data"
    /\ LET c == ReadHandle(p)
       IN IF c = EmptyContent
          THEN Finish(p, RetError("JSONDecodeError"))
          ELSE Finish(p, RetValue(c))
    /\ UNCHANGED <<dataFile, metaFile, inode, nextInode, ttl, clock, lockHolder, opsLeft>>
    /\ cmHist' = OthersOverlapped(p)
    /\ lastSet' = lastSet
    /\ UNCHANGED <<pipeVars, parseVars, keyVars, combineVars, asyncVars>>

\* CacheManager.set(key, data) is called.
SetCall(p, k, v) ==
    /\ cmProc[p].op = "idle"
    /\ opsLeft > 0
    /\ opsLeft' = opsLeft - 1
    /\ cmProc' = [cmProc EXCEPT ![p] = [IdleProc EXCEPT !.op = "set", !.pos = "lock",
                                                        !.key = k, !.data = v]]
    /\ cmRet' = [cmRet EXCEPT ![p] = NoRet]
    /\ UNCHANGED <<dataFile, metaFile, inode, nextInode, ttl, clock, lockHolder>>
    /\ cmHist' = HistWriterCall(p, {k})
    /\ lastSet' = LastSetCalled(k)
    /\ UNCHANGED <<pipeVars, parseVars, keyVars, combineVars, asyncVars>>

\* `async with self._lock:` the writers are serialized; get takes no lock.
SetAcquire(p) ==
    /\ cmProc[p].op = "set"
    /\ cmProc[p].pos = "lock"
    /\ lockHolder = 0
    /\ lockHolder' = p
    /\ cmProc' = [cmProc EXCEPT ![p].pos = "open_data"]
    /\ UNCHANGED <<dataFile, metaFile, inode, nextInode, ttl, clock, cmRet, opsLeft>>
    /\ cmHist' = OthersOverlapped(p)
    /\ lastSet' = lastSet
    /\ UNCHANGED <<pipeVars, parseVars, keyVars, combineVars, asyncVars>>

\* open(path, "w") on the file table f: an existing file is truncated in place,
\* a missing one is created empty.
OpenForWrite(p, f, k, nextPos) ==
    IF f[k] = NoFile
    THEN /\ inode' = [inode EXCEPT ![nextInode] = EmptyContent]
         /\ nextInode' = nextInode + 1
         /\ cmProc' = [cmProc EXCEPT ![p].pos = nextPos, ![p].handle = nextInode]
    ELSE /\ inode' = [inode EXCEPT ![f[k]] = EmptyContent]
         /\ nextInode' = nextInode
         /\ cmProc' = [cmProc EXCEPT ![p].pos = nextPos, ![p].handle = f[k]]

\* aiofiles.open(cache_path, "w")
SetOpenData(p) ==
    /\ cmProc[p].op = "set"
    /\ cmProc[p].pos = "open_data"
    /\ OpenForWrite(p, dataFile, cmProc[p].key, "write_data")
    /\ dataFile' = [dataFile EXCEPT ![cmProc[p].key] =
                        IF @ = NoFile THEN nextInode ELSE @]
    /\ UNCHANGED <<metaFile, ttl, clock, lockHolder, cmRet, opsLeft>>
    /\ cmHist' = OthersOverlapped(p)
    /\ lastSet' = lastSet
    /\ UNCHANGED <<pipeVars, parseVars, keyVars, combineVars, asyncVars>>

\* f.write(json.dumps(data)) and the close; then the metadata dict is built
\* with "created": datetime.now().
SetWriteData(p) ==
    /\ cmProc[p].op = "set"
    /\ cmProc[p].pos = "write_data"
    /\ inode' = [inode EXCEPT ![cmProc[p].handle] = cmProc[p].data]
    /\ cmProc' = [cmProc EXCEPT ![p].pos = "open_meta", ![p].handle = 0,
                                ![p].created = clock]
    /\ UNCHANGED <<dataFile, metaFile, nextInode, ttl, clock, lockHolder, cmRet, opsLeft>>
    /\ cmHist' = OthersOverlapped(p)
    /\ lastSet' = lastSet
    /\ UNCHANGED <<pipeVars, parseVars, keyVars, combineVars, asyncVars>>

\* aiofiles.open(meta_path, "w")
SetOpenMeta(p) ==
    /\ cmProc[p].op = "set"
    /\ cmProc[p].pos = "open_meta"
    /\ OpenForWrite(p, metaFile, cmProc[p].key, "write_meta")
    /\ metaFile' = [metaFile EXCEPT ![cmProc[p].key] =
                        IF @ = NoFile THEN nextInode ELSE @]
    /\ UNCHANGED <<dataFile, ttl, clock, lockHolder, cmRet, opsLeft>>
    /\ cmHist' = OthersOverlapped(p)
    /\ lastSet' = lastSet
    /\ UNCHANGED <<pipeVars, parseVars, keyVars, combineVars, asyncVars>>

\* f.write(json.dumps(metadata)), the close, the lock released, set returns.
SetWriteMeta(p) ==
    /\ cmProc[p].op = "set"
    /\ cmProc[p].pos = "write_meta"
    /\ inode' = [inode EXCEPT ![cmProc[p].handle] = cmProc[p].created + 1]
    /\ lockHolder' = 0
    /\ Finish(p, RetDone)
    /\ UNCHANGED <<dataFile, metaFile, nextInode, ttl, clock, opsLeft>>
    /\ cmHist' = OthersOverlapped(p)
    /\ lastSet' = LastSetCompleted(p)
    /\ UNCHANGED <<pipeVars, parseVars, keyVars, combineVars, asyncVars>>

\* CacheManager.delete(key): no await inside, both files are unlinked at once.
DeleteCall(p, k) ==
    /\ cmProc[p].op = "idle"
    /\ opsLeft > 0
    /\ opsLeft' = opsLeft - 1
    /\ dataFile' = [dataFile EXCEPT ![k] = NoFile]
    /\ metaFile' = [metaFile EXCEPT ![k] = NoFile]
    /\ Finish(p, RetDone)
    /\ UNCHANGED <<inode, nextInode, ttl, clock, lockHolder>>
    /\ cmHist' = HistWriterCall(p, {k})
    /\ lastSet' = LastSetCalled(k)
    /\ UNCHANGED <<pipeVars, parseVars, keyVars, combineVars, asyncVars>>

\* CacheManager.clear(): every *.json of the directory is unlinked.
ClearCall(p) ==
    /\ cmProc[p].op = "idle"
    /\ opsLeft > 0
    /\ opsLeft' = opsLeft - 1
    /\ dataFile' = [k \in CacheKeys |-> NoFile]
    /\ metaFile' = [k \in CacheKeys |-> NoFile]
    /\ Finish(p, RetDone)
    /\ UNCHANGED <<inode, nextInode, ttl, clock, lockHolder>>
    /\ cmHist' = HistWriterCall(p, CacheKeys)
    /\ lastSet' = [k \in CacheKeys |-> NoSet]
    /\ UNCHANGED <<pipeVars, parseVars, keyVars, combineVars, asyncVars>>

\* Time passes.
Tick ==
    /\ clock < MaxClock
    /\ clock' = clock + 1
    /\ UNCHANGED <<dataFile, metaFile, inode, nextInode, ttl, lockHolder, cmProc, cmRet,
                   opsLeft, cmHist, lastSet>>
    /\ UNCHANGED <<pipeVars, parseVars, keyVars, combineVars, asyncVars>>

\* The cache directory of a manager nobody is calling.
CacheManagerIdle ==
    /\ clock = 0
    /\ lockHolder = 0
    /\ cmProc = [p \in Procs |-> IdleProc]
    /\ cmRet = [p \in Procs |-> NoRet]
    /\ cmHist = [p \in Procs |-> NoHist]

\* No entry on disk.
EmptyDirectory ==
    /\ dataFile = [k \in CacheKeys |-> NoFile]
    /\ metaFile = [k \in CacheKeys |-> NoFile]
    /\ inode = [i \in Inodes |-> EmptyContent]
    /\ nextInode = 1
    /\ lastSet = [k \in CacheKeys |-> NoSet]

\* CacheManager(cache_dir, ttl): the directory holds, per key, nothing or an
\* entry written completely at time 0 (data in inode 2k-1, metadata in 2k).
InitCacheManager ==
    /\ CacheManagerIdle
    /\ ttl \in {NoTTL} \cup 0..MaxTTL
    /\ opsLeft = MaxCacheOps
    /\ \E present \in SUBSET CacheKeys : \E v \in [CacheKeys -> Payloads] :
          /\ dataFile = [k \in CacheKeys |-> IF k \in present THEN 2 * k - 1 ELSE NoFile]
          /\ metaFile = [k \in CacheKeys |-> IF k \in present THEN 2 * k ELSE NoFile]
          /\ inode = [i \in Inodes |->
                        IF \E k \in present : i = 2 * k - 1 THEN v[(i + 1) \div 2]
                        ELSE IF \E k \in present : i = 2 * k THEN 1
                        ELSE EmptyContent]
          /\ lastSet = [k \in CacheKeys |->
                          IF k \in present
                          THEN [payload |-> v[k], created |-> 0, stamp |-> MaxCacheOps + 1]
                          ELSE NoSet]
    /\ nextInode = 2 * MaxKeys + 1

\* ------------------------------------------------------------------ BaseParser.parse
Callers == 1..MaxCallers
Formats == {"markdown", "json"}
NoFormat == "None"
\* The input document: absent; present with size 0; present and non-empty but
\* not readable as a PDF (no read permission, damaged); a PDF.
FileStates == {"missing", "empty", "unreadable", "valid"}
\* PDFParser overrides _parse; a structured parser implements the hooks of the
\* default BaseParser._parse.
ParserKinds == {"pdf", "structured"}

\* PdfOptions.page_range: None, or (s, e) with 1 <= s <= e.
NoRange == <<0, 0>>
PageRanges == {r \in (1..MaxDocPages) \X (1..MaxDocPages) : r[1] <= r[2]}
Options == {NoRange} \cup PageRanges

NoResult ==
    [kind |-> "none", content |-> "", errors |-> 0, format |-> NoFormat, exc |-> "none",
     pages |-> 0]
ParseResult(c, e, f, n) ==
    [kind |-> "result", content |-> c, errors |-> e, format |-> f, exc |-> "none",
     pages |-> n]
Raised(e) ==
    [kind |-> "raise", content |-> "", errors |-> 0, format |-> NoFormat, exc |-> e,
     pages |-> 0]

NoKey == <<NoFormat, NoRange>>
IdleCall ==
    [pos |-> "idle", original_format |-> NoFormat, key |-> NoKey, result |-> NoResult,
     images |-> 0]

\* What one parse call did: the options it was given, the page range its
\* rasterizer call received, whether that call failed, how often it ran _parse,
\* read and wrote the result cache, the exception a hook raised in it, and the
\* result a call with the same key had returned before it began, and the
\* per-page cache_get calls of its _process_pages.
NoLog ==
    [options |-> NoRange, passed |-> NoRange, rasterFailed |-> FALSE, ranParse |-> 0,
     cacheReads |-> 0, cacheWrites |-> 0, hookExc |-> "none", prior |-> NoResult,
     pageLookups |-> 0]

\* input_path.stat() raises (FileNotFoundError) for a path that is not there.
StatRaises == fileState = "missing"

\* PDFParser.validate_input: supported extension, stat without OSError, size # 0.
ValidateInput ==
    /\ hasExt
    /\ ~StatRaises
    /\ fileState # "empty"

\* The cache key hashes the path, its mtime, the settings (output_format among
\* them) and the options: for one file and one parser it varies with the format
\* and the options.
GenerateCacheKey(fmt, opt) == <<fmt, opt>>
ResultKeys == Formats \X Options

\* parse calls self._parse(input_path, options=options), so the _kwargs of
\* PDFParser._parse hold the one key "options": _kwargs.get("page_range") is None.
KwargsPageRange(opt) == NoRange

\* len(images) of convert_from_path for the range it was given (the whole
\* document without one; a range is cut at the document's end).
RasterPages(passed) ==
    IF passed = NoRange THEN docPages
    ELSE LET last == IF passed[2] < docPages THEN passed[2] ELSE docPages
         IN IF last < passed[1] THEN 0 ELSE last - passed[1] + 1

\* error_policy.EXPECTED_EXCEPTIONS
ExpectedExceptions ==
    {"FileNotFoundError", "IsADirectoryError", "PermissionError", "OSError", "ValueError",
     "ClientError", "PDFInfoNotInstalledError", "PDFPageCountError", "PDFSyntaxError"}

\* What a hook may raise: an expected error, a programming error, a
\* cancellation (a BaseException that is no Exception).
HookExceptions == {"ValueError", "KeyError", "CancelledError"}

\* `except Exception as exc:` in BaseParser._parse
Caught(e) == e # "CancelledError"

\* A lookup that never finds the stored result.
IsCachedResultNever(r) == FALSE

\* `if cached_result:` in BaseParser.parse
IsCachedResult(r) == r.kind = "result"

\* parse leaves through its `finally`: settings.output_format is restored.
ParseLeave(c, ret) ==
    /\ parseProc' = [parseProc EXCEPT ![c] = IdleCall]
    /\ parseRet' = [parseRet EXCEPT ![c] = ret]
    /\ output_format' = parseProc[c].original_format
    /\ parseHist' = IF ret.kind = "result"
                    THEN [parseHist EXCEPT !.returned[parseProc[c].key] = ret]
                    ELSE parseHist

\* parse(input_path, output_format=req, options=opt) up to its first await: the
\* format override, then generate_cache_key, whose stat raises for a missing file.
ParseCall(c, req, opt) ==
    /\ parseProc[c].pos = "idle"
    /\ parsesLeft > 0
    /\ parsesLeft' = parsesLeft - 1
    /\ rasterCalls' = [rasterCalls EXCEPT ![c] = 0]
    /\ processCalls' = [processCalls EXCEPT ![c] = 0]
    /\ parseHist' = [parseHist EXCEPT !.overlap =
                        @ \/ \E d \in Callers \ {c} : parseProc[d].pos # "idle"]
    /\ LET fmt == IF req = NoFormat THEN output_format ELSE req
       IN IF StatRaises
          THEN /\ parseProc' = parseProc
               /\ parseRet' = [parseRet EXCEPT ![c] = Raised("FileNotFoundError")]
               /\ output_format' = output_format
               /\ parseLog' = [parseLog EXCEPT ![c] = [NoLog EXCEPT !.options = opt]]
          ELSE /\ parseProc' = [parseProc EXCEPT ![c] =
                      [pos |-> IF use_cache THEN "cache_get" ELSE "validate",
                       original_format |-> output_format,
                       key |-> GenerateCacheKey(fmt, opt),
                       result |-> NoResult,
                       images |-> 0]]
               /\ parseRet' = [parseRet EXCEPT ![c] = NoResult]
               /\ output_format' = fmt
               /\ parseLog' = [parseLog EXCEPT ![c] =
                      [NoLog EXCEPT !.options = opt,
                                    !.prior = parseHist.returned[GenerateCacheKey(fmt, opt)]]]
    /\ UNCHANGED <<parseEnv, resultCache, parseRuns>>
    /\ UNCHANGED <<pipeVars, cmVars, keyVars, combineVars, asyncVars>>

\* cached_result = await cache_get(...); `if cached_result:` returns it.
ParseCacheGet(c) ==
    /\ parseProc[c].pos = "cache_get"
    /\ parseLog' = [parseLog EXCEPT ![c].cacheReads = @ + 1]
    /\ IF IsCachedResult(resultCache[parseProc[c].key])
       THEN ParseLeave(c, resultCache[parseProc[c].key])
       ELSE /\ parseProc' = [parseProc EXCEPT ![c].pos = "validate"]
            /\ UNCHANGED <<parseHist, parseRet, output_format>>
    /\ UNCHANGED <<parseEnv, resultCache, rasterCalls, processCalls, parsesLeft, parseRuns>>
    /\ UNCHANGED <<pipeVars, cmVars, keyVars, combineVars, asyncVars>>

\* `result = await self._parse(...)` begins; both PDFParser._parse and the
\* default BaseParser._parse validate first: an invalid input gives the result
\* ParseResult(content="", errors=[...]) with the default output_format.
ParseValidate(c) ==
    /\ parseProc[c].pos = "validate"
    /\ parseLog' = [parseLog EXCEPT ![c].ranParse = @ + 1]
    /\ parseRuns' = [parseRuns EXCEPT ![parseProc[c].key] = @ + 1]
    /\ IF ValidateInput
       THEN parseProc' = [parseProc EXCEPT ![c].pos =
                              IF parserKind = "pdf" THEN "rasterize" ELSE "open"]
       ELSE parseProc' = [parseProc EXCEPT ![c].pos = "store",
                                           ![c].result = ParseResult("", 1, "markdown", 0)]
    /\ UNCHANGED <<parseEnv, resultCache, output_format, parseRet, rasterCalls,
                   processCalls, parsesLeft, parseHist>>
    /\ UNCHANGED <<pipeVars, cmVars, keyVars, combineVars, asyncVars>>

\* images = await self._pdf_to_images(input_path, page_range): convert_from_path
\* raises on a file it cannot read, and may fail on a readable one (poppler not
\* installed); nothing in _parse or parse catches it.
ParseRasterize(c) ==
    /\ parseProc[c].pos = "rasterize"
    /\ rasterCalls' = [rasterCalls EXCEPT ![c] = @ + 1]
    /\ LET passed == KwargsPageRange(parseLog[c].options)
       IN \/ /\ fileState = "valid"
             /\ parseLog' = [parseLog EXCEPT ![c].passed = passed]
             /\ parseProc' = [parseProc EXCEPT ![c].pos = "process",
                                               ![c].images = RasterPages(passed)]
             /\ UNCHANGED <<parseHist, parseRet, output_format>>
          \/ /\ parseLog' = [parseLog EXCEPT ![c].passed = passed,
                                             ![c].rasterFailed = TRUE]
             /\ ParseLeave(c, Raised(IF fileState = "valid"
                                     THEN "PDFInfoNotInstalledError"
                                     ELSE "PDFPageCountError"))
    /\ UNCHANGED <<parseEnv, resultCache, processCalls, parsesLeft, parseRuns>>
    /\ UNCHANGED <<pipeVars, cmVars, keyVars, combineVars, asyncVars>>

\* The cache_get calls of _get_cached_pages over the batches of a request: one
\* for every page image, whatever settings.use_cache is.
PageLookups(images) == images


\* results = await self._process_pages(...), _combine_results, the metadata
\* ("pages": len(images)) and ParseResult(content=...,
\* output_format=self.settings.output_format); an exception of the page pipeline
\* propagates.
ParseProcess(c) ==
    /\ parseProc[c].pos = "process"
    /\ processCalls' = [processCalls EXCEPT ![c] = @ + 1]
    /\ \/ /\ parseProc' = [parseProc EXCEPT ![c].pos = "store",
                               ![c].result =
                                   ParseResult(IF parseProc[c].images = 0 THEN "" ELSE "text",
                                               0, output_format, parseProc[c].images)]
          /\ UNCHANGED <<parseHist, parseRet, output_format>>
       \/ /\ parseProc[c].images > 0
          /\ ParseLeave(c, Raised("ExtractionError"))
    /\ parseLog' = [parseLog EXCEPT ![c].pageLookups = PageLookups(parseProc[c].images)]
    /\ UNCHANGED <<parseEnv, resultCache, rasterCalls, parsesLeft, parseRuns>>
    /\ UNCHANGED <<pipeVars, cmVars, keyVars, combineVars, asyncVars>>

\* The handler of the default BaseParser._parse around its hooks: a caught
\* exception becomes ParseResult(content="", errors=[...]), another leaves parse.
HookRaises(c, e) ==
    /\ parseLog' = [parseLog EXCEPT ![c].hookExc = e]
    /\ IF Caught(e)
       THEN /\ parseProc' = [parseProc EXCEPT ![c].pos = "store",
                                 ![c].result = ParseResult("", 1, "markdown", 0)]
            /\ UNCHANGED <<parseHist, parseRet, output_format>>
       ELSE ParseLeave(c, Raised(e))

\* document_obj = await self._open_document(input_path, options=options)
ParseOpenDocument(c) ==
    /\ parseProc[c].pos = "open"
    /\ \/ /\ parseProc' = [parseProc EXCEPT ![c].pos = "extract"]
          /\ UNCHANGED <<parseHist, parseRet, output_format, parseLog>>
       \/ \E e \in HookExceptions : HookRaises(c, e)
    /\ UNCHANGED <<parseEnv, resultCache, rasterCalls, processCalls, parsesLeft, parseRuns>>
    /\ UNCHANGED <<pipeVars, cmVars, keyVars, combineVars, asyncVars>>

\* content = await self._extract_as_markdown(document_obj) or _extract_as_json,
\* the metadata and ParseResult(content=..., output_format=...).
ParseExtractHook(c) ==
    /\ parseProc[c].pos = "extract"
    /\ \/ /\ parseProc' = [parseProc EXCEPT ![c].pos = "store",
                               ![c].result = ParseResult("text", 0, output_format, 0)]
          /\ UNCHANGED <<parseHist, parseRet, output_format, parseLog>>
       \/ \E e \in HookExceptions : HookRaises(c, e)
    /\ UNCHANGED <<parseEnv, resultCache, rasterCalls, processCalls, parsesLeft, parseRuns>>
    /\ UNCHANGED <<pipeVars, cmVars, keyVars, combineVars, asyncVars>>

\* `if self.settings.use_cache: await cache_set(...)`, then `return result`.
ParseStore(c) ==
    /\ parseProc[c].pos = "store"
    /\ resultCache' = IF use_cache
                      THEN [resultCache EXCEPT ![parseProc[c].key] = parseProc[c].result]
                      ELSE resultCache
    /\ parseLog' = [parseLog EXCEPT ![c].cacheWrites = IF use_cache THEN @ + 1 ELSE @]
    /\ ParseLeave(c, parseProc[c].result)
    /\ UNCHANGED <<parseEnv, rasterCalls, processCalls, parsesLeft, parseRuns>>
    /\ UNCHANGED <<pipeVars, cmVars, keyVars, combineVars, asyncVars>>

\* A parser nobody is calling.
ParserIdle ==
    /\ parseProc = [c \in Callers |-> IdleCall]
    /\ parseRet = [c \in Callers |-> NoResult]
    /\ rasterCalls = [c \in Callers |-> 0]
    /\ processCalls = [c \in Callers |-> 0]
    /\ parseLog = [c \in Callers |-> NoLog]
    /\ resultCache = [k \in ResultKeys |-> NoResult]
    /\ parseRuns = [k \in ResultKeys |-> 0]
    /\ parseHist = [overlap |-> FALSE, returned |-> [k \in ResultKeys |-> NoResult],
                    format |-> output_format]

\* The parse model at rest, for the specifications of the other components.
ParseUnused ==
    /\ output_format = "markdown"
    /\ ParserIdle
    /\ fileState = "valid"
    /\ hasExt = TRUE
    /\ use_cache = TRUE
    /\ parserKind = "pdf"
    /\ docPages = 1
    /\ parsesLeft = 0

\* ------------------------------------------------------------------ page cache keys
\* Documents: two of the same file name in different directories, and a third.
Documents == {<<"a", "report">>, <<"b", "report">>, <<"a", "notes">>}
NoDocument == <<"", "">>

\* pdf_path.stem
Stem(doc) == doc[2]

\* cache_key = f"{pdf_path.stem}_page_{page_num}"
PageCacheKey(doc, page_num) == <<Stem(doc), page_num>>

\* The document page shown by images[i] when the rasterizer was given
\* first_page = s: convert_from_path returns the pages s, s + 1, ...
DocumentPage(s, i) == s + i

\* _pdf_to_images(pdf_path, (s, e)) and the start of _process_pages on its
\* images: the batches are numbered from the list, page_nums = i + 1, ...
KeyRunStart(doc, s, e) ==
    /\ keyTask = 0
    /\ keyRunsLeft > 0
    /\ keyRunsLeft' = keyRunsLeft - 1
    /\ pdf_path' = doc
    /\ first_page' = s
    /\ numPages' = e - s + 1
    /\ keyTask' = 1
    /\ keyIdx' = 0
    /\ UNCHANGED <<pageKeys, batch_size, max_concurrent, cache, cacheAtStart, run, phase,
                   pc, cached_pages, pages_to_process, extracted, written, batch_result,
                   error, waited, semValue, waiters, completed, outcome, raised, results,
                   content, calls, faults>>
    /\ UNCHANGED <<cmVars, parseVars, combineVars, asyncVars>>

\* One iteration of the loop of _get_cached_pages: the key of the next image.
KeyAssign ==
    /\ keyTask \in LiveTasks
    /\ LET page == DocumentPage(first_page, BatchStart(keyTask) + keyIdx)
           key == PageCacheKey(pdf_path, PageNum(keyTask, keyIdx))
       IN pageKeys' = [pageKeys EXCEPT ![<<pdf_path, page>>] = @ \cup {key}]
    /\ IF keyIdx + 1 < BatchLen(keyTask)
       THEN /\ keyIdx' = keyIdx + 1
            /\ keyTask' = keyTask
       ELSE /\ keyIdx' = 0
            /\ keyTask' = IF keyTask + 1 \in LiveTasks THEN keyTask + 1 ELSE 0
    /\ UNCHANGED <<pdf_path, first_page, keyRunsLeft>>
    /\ UNCHANGED pipeVars
    /\ UNCHANGED <<cmVars, parseVars, combineVars, asyncVars>>

\* No run has built a key.
KeysUnbuilt ==
    /\ pdf_path = NoDocument
    /\ first_page = 1
    /\ keyTask = 0
    /\ keyIdx = 0
    /\ pageKeys = [dp \in Documents \X (1..MaxPages) |-> {}]

\* The key model at rest, for the specifications of the other components.
KeysUnused == KeysUnbuilt /\ keyRunsLeft = 0

\* ------------------------------------------------------------------ AsyncBatcher
\* Each adder makes one add call; its item is its own number.
Adders == 1..MaxAdders
BatcherImpls == {"async_batcher", "async_helpers"}

\* What one process_func call does: it returns a result for every item, returns
\* one result too few, or raises.
ProcessOutcomes == {"full", "short", "RuntimeError", "KeyError"}

NoFuture == [state |-> "none", value |-> 0, exc |-> "none"]
PendingFuture == [state |-> "pending", value |-> 0, exc |-> "none"]
FutureResult(v) == [state |-> "result", value |-> v, exc |-> "none"]
FutureException(e) == [state |-> "exception", value |-> 0, exc |-> e]

TaskAt(pos, batch) == [state |-> pos, batch |-> batch]
NoTask == TaskAt("none", <<>>)

\* `except (RuntimeError, ValueError)` in async_batcher.py, `except Exception`
\* in async_helpers.py, around the process_func call.
BatchCaught(impl, e) == impl = "async_helpers" \/ e \in {"RuntimeError", "ValueError"}

\* A batch that takes the whole queue.
TakeBatchWhole(q, n) == q

\* `while self._queue and len(batch) < self.batch_size: ... popleft()`
TakeBatch(q, n) == SubSeq(q, 1, IF Len(q) < n THEN Len(q) ELSE n)

\* The process_func of test_async_batcher_basic, `[i * 2 for i in batch]`, and
\* one that drops the last result.
ProcessResults(batch, how) ==
    LET doubled == [i \in 1..Len(batch) |-> 2 * batch[i]]
    IN IF how = "full" THEN doubled ELSE SubSeq(doubled, 1, Len(batch) - 1)

\* add(item): the item is queued with a new future, the processing task is
\* created when there is none or it is done, and the caller awaits the future.
\* The lock's blocks hold no await, so the lock is always free when taken.
Add(c) ==
    /\ futures[c].state = "none"
    /\ queue' = Append(queue, c)
    /\ task' = IF task.state \in {"none", "done", "died"} THEN TaskAt("scheduled", <<>>)
               ELSE task
    /\ futures' = [futures EXCEPT ![c] = PendingFuture]
    /\ batchLog' = [batchLog EXCEPT !.added = Append(@, c)]
    /\ UNCHANGED <<batcher, retry>>
    /\ UNCHANGED <<pipeVars, cmVars, parseVars, keyVars, combineVars>>

\* _process_batches at `while self._queue:`, when the task starts and after each
\* sleep: it ends on an empty queue, else takes a batch and calls process_func.
CollectBatch ==
    /\ task.state \in {"scheduled", "sleeping"}
    /\ IF queue = <<>>
       THEN /\ task' = TaskAt("done", <<>>)
            /\ UNCHANGED <<queue, batchLog>>
       ELSE LET batch == TakeBatch(queue, batcher.batch_size)
            IN /\ task' = TaskAt("processing", batch)
               /\ queue' = SubSeq(queue, Len(batch) + 1, Len(queue))
               /\ batchLog' = [batchLog EXCEPT !.handed =
                                  Append(@, [items |-> batch, results |-> <<>>])]
    /\ UNCHANGED <<batcher, futures, retry>>
    /\ UNCHANGED <<pipeVars, cmVars, parseVars, keyVars, combineVars>>

\* process_func ends.  Its results are set on the futures by position, a future
\* without a result gets Exception("No result for item"); a caught exception is
\* set on every future of the batch; any other exception ends the task and
\* leaves the futures of the batch as they are.
ProcessEnd(how) ==
    /\ task.state = "processing"
    /\ LET batch == task.batch
           res == ProcessResults(batch, how)
           pos(c) == CHOOSE i \in 1..Len(batch) : batch[i] = c
           inBatch(c) == \E i \in 1..Len(batch) : batch[i] = c
       IN IF how \in {"full", "short"}
          THEN /\ futures' = [c \in Adders |->
                                IF ~inBatch(c) THEN futures[c]
                                ELSE IF pos(c) <= Len(res)
                                     THEN FutureResult(res[pos(c)])
                                     ELSE FutureException("Exception")]
               /\ task' = TaskAt("sleeping", <<>>)
               /\ batchLog' = [batchLog EXCEPT !.handed[Len(batchLog.handed)].results = res]
          ELSE IF BatchCaught(batcher.impl, how)
          THEN /\ futures' = [c \in Adders |->
                                IF inBatch(c) THEN FutureException(how) ELSE futures[c]]
               /\ task' = TaskAt("sleeping", <<>>)
               /\ UNCHANGED batchLog
          ELSE /\ task' = TaskAt("died", <<>>)
               /\ UNCHANGED <<futures, batchLog>>
    /\ UNCHANGED <<batcher, queue, retry>>
    /\ UNCHANGED <<pipeVars, cmVars, parseVars, keyVars, combineVars>>

\* ------------------------------------------------------------------ run_with_retry
\* What one call of func does.
AttemptOutcomes == {"ok", "RuntimeError", "KeyError"}

\* `except retry_exceptions` of AsyncBatcher.run_with_retry (the default tuple),
\* `except Exception` of async_helpers.run_with_retry.
Retried(impl, e) ==
    impl = "async_helpers"
        \/ e \in {"RuntimeError", "ValueError", "ConnectionError", "TimeoutError"}

\* `if attempt < max_retries:` in the handler
MoreAttempts(attempt, max_retries) == attempt < max_retries

NoRetry ==
    [impl |-> "async_helpers", max_retries |-> 0, state |-> "idle", attempt |-> 0,
     outcomes |-> <<>>, exc |-> "none"]

\* run_with_retry(func, ...) is called: `for attempt in range(max_retries + 1)`;
\* with max_retries >= 0 the first attempt is made.
RetryCall ==
    /\ retry.state = "idle"
    /\ retry' = [retry EXCEPT !.state = "calling"]
    /\ UNCHANGED <<batcher, queue, task, futures, batchLog>>
    /\ UNCHANGED <<pipeVars, cmVars, parseVars, keyVars, combineVars>>

\* `return await func(*args, **kwargs)` ends: the result is returned; a caught
\* exception is followed by the sleep or, on the last attempt, raised again; an
\* exception that is not caught leaves run_with_retry.
RetryAttempt(how) ==
    /\ retry.state = "calling"
    /\ retry' = [retry EXCEPT
                    !.outcomes = Append(@, how),
                    !.exc = IF how = "ok" THEN "none" ELSE how,
                    !.state = IF how = "ok" THEN "returned"
                              ELSE IF Retried(retry.impl, how)
                                      /\ MoreAttempts(retry.attempt, retry.max_retries)
                                   THEN "sleeping"
                                   ELSE "raised"]
    /\ UNCHANGED <<batcher, queue, task, futures, batchLog>>
    /\ UNCHANGED <<pipeVars, cmVars, parseVars, keyVars, combineVars>>

\* `await asyncio.sleep(wait_time)` ends and the loop goes on: the next attempt,
\* or the end of the range, where run_with_retry returns None.
RetryWake ==
    /\ retry.state = "sleeping"
    /\ retry' = [retry EXCEPT
                    !.attempt = @ + 1,
                    !.exc = IF retry.attempt < retry.max_retries THEN @ ELSE "none",
                    !.state = IF retry.attempt < retry.max_retries THEN "calling"
                              ELSE "returned"]
    /\ UNCHANGED <<batcher, queue, task, futures, batchLog>>
    /\ UNCHANGED <<pipeVars, cmVars, parseVars, keyVars, combineVars>>

\* No batcher and no run_with_retry call is in use.
BatcherIdle ==
    /\ queue = <<>>
    /\ task = NoTask
    /\ futures = [c \in Adders |-> NoFuture]
    /\ batchLog = [added |-> <<>>, handed |-> <<>>]

AsyncUnused ==
    /\ BatcherIdle
    /\ batcher = [impl |-> "async_batcher", batch_size |-> 1]
    /\ retry = NoRetry

Runs == 1..NumRuns

\* A parser is built (RateLimiter(max_workers): all permits free) for a document
\* of numPages pages; each page's cache entry is absent or was left by an
\* earlier single-page extraction.
Init ==
    /\ numPages \in 0..MaxPages
    /\ batch_size \in 1..MaxBatchSize
    /\ max_concurrent \in 1..MaxConcurrent
    /\ cache \in [1..MaxPages -> {NoEntry} \cup {OkEntry(PageText(p), p) : p \in 1..MaxPages}]
    /\ \A p \in 1..MaxPages :
          /\ cache[p].state = "ok" => cache[p].page = p
          /\ p > numPages => cache[p] = NoEntry
    /\ cacheAtStart = cache
    /\ run = 0
    /\ phase = "idle"
    /\ pc = EmptyTasks("none")
    /\ cached_pages = EmptyTasks(<<>>)
    /\ pages_to_process = EmptyTasks(<<>>)
    /\ extracted = EmptyTasks(<<>>)
    /\ written = EmptyTasks(0)
    /\ batch_result = EmptyTasks(<<>>)
    /\ error = EmptyTasks("none")
    /\ waited = EmptyTasks(FALSE)
    /\ semValue = max_concurrent
    /\ waiters = <<>>
    /\ completed = <<>>
    /\ outcome = [r \in Runs |-> "none"]
    /\ raised = [r \in Runs |-> "none"]
    /\ results = [r \in Runs |-> <<>>]
    /\ content = [r \in Runs |-> NoContent]
    /\ calls = [r \in Runs |-> 0]
    /\ faults = MaxFaults
    /\ CacheManagerIdle
    /\ EmptyDirectory
    /\ ttl = NoTTL
    /\ opsLeft = 0
    /\ ParseUnused
    /\ KeysUnused
    /\ CombineUnused
    /\ AsyncUnused

Next ==
    \/ StartRun
    \/ \E t \in Tasks : TaskStart(t)
    \/ \E t \in Tasks : Lookup(t)
    \/ \E t \in Tasks : LookupFault(t)
    \/ \E t \in Tasks : ExtractCall(t)
    \/ \E t \in Tasks : ExtractReturn(t)
    \/ \E t \in Tasks : ExtractRaise(t)
    \/ \E t \in Tasks : Write(t)
    \/ \E t \in Tasks : WriteFault(t)
    \/ GatherReturn
    \/ GatherRaise

Spec == Init /\ [][Next]_vars

\* No request has been made of the pipeline.
PipelineAtRest ==
    /\ max_concurrent = 1
    /\ cache = [p \in 1..MaxPages |-> NoEntry]
    /\ cacheAtStart = cache
    /\ run = 0
    /\ phase = "idle"
    /\ pc = EmptyTasks("none")
    /\ cached_pages = EmptyTasks(<<>>)
    /\ pages_to_process = EmptyTasks(<<>>)
    /\ extracted = EmptyTasks(<<>>)
    /\ written = EmptyTasks(0)
    /\ batch_result = EmptyTasks(<<>>)
    /\ error = EmptyTasks("none")
    /\ waited = EmptyTasks(FALSE)
    /\ semValue = max_concurrent
    /\ waiters = <<>>
    /\ completed = <<>>
    /\ outcome = [r \in Runs |-> "none"]
    /\ raised = [r \in Runs |-> "none"]
    /\ results = [r \in Runs |-> <<>>]
    /\ content = [r \in Runs |-> NoContent]
    /\ calls = [r \in Runs |-> 0]
    /\ faults = 0

\* The pipeline of a parser nobody is calling.
PipelineIdle ==
    /\ numPages = 0
    /\ batch_size = 1
    /\ PipelineAtRest

InitCache == InitCacheManager /\ PipelineIdle /\ ParseUnused /\ KeysUnused /\ CombineUnused
             /\ AsyncUnused

\* A parser on one input document; the page pipeline and the cache directory
\* are modelled by Spec and SpecCache and stay at rest here.
InitParse ==
    /\ output_format \in Formats
    /\ ParserIdle
    /\ fileState \in FileStates
    /\ hasExt \in BOOLEAN
    /\ use_cache \in BOOLEAN
    /\ parserKind \in ParserKinds
    /\ docPages \in 1..MaxDocPages
    /\ parsesLeft = MaxParses
    /\ PipelineIdle
    /\ CacheManagerIdle
    /\ EmptyDirectory
    /\ ttl = NoTTL
    /\ opsLeft = 0
    /\ KeysUnused
    /\ CombineUnused
    /\ AsyncUnused

\* The keys _process_pages builds, over runs on whole documents and on page
\* ranges; no page is extracted.
InitKeys ==
    /\ KeysUnbuilt
    /\ keyRunsLeft = MaxKeyRuns
    /\ numPages = 0
    /\ batch_size \in 1..MaxBatchSize
    /\ PipelineAtRest
    /\ CacheManagerIdle
    /\ EmptyDirectory
    /\ ttl = NoTTL
    /\ opsLeft = 0
    /\ ParseUnused
    /\ CombineUnused
    /\ AsyncUnused

NextKeys ==
    \/ \E doc \in Documents : \E s \in 1..MaxPages : \E e \in s..MaxPages :
          KeyRunStart(doc, s, e)
    \/ KeyAssign

SpecKeys == InitKeys /\ [][NextKeys]_vars

NextParse ==
    \/ \E c \in Callers : \E req \in Formats \cup {NoFormat} : \E opt \in Options :
          ParseCall(c, req, opt)
    \/ \E c \in Callers : ParseCacheGet(c)
    \/ \E c \in Callers : ParseValidate(c)
    \/ \E c \in Callers : ParseRasterize(c)
    \/ \E c \in Callers : ParseProcess(c)
    \/ \E c \in Callers : ParseOpenDocument(c)
    \/ \E c \in Callers : ParseExtractHook(c)
    \/ \E c \in Callers : ParseStore(c)

\* BaseParser.parse called by the tasks of one event loop.
SpecParse == InitParse /\ [][NextParse]_vars

NextCache ==
    \/ \E p \in Procs : \E k \in CacheKeys : GetCall(p, k)
    \/ \E p \in Procs : GetOpenMeta(p)
    \/ \E p \in Procs : GetReadMeta(p)
    \/ \E p \in Procs : GetCheckExpiry(p)
    \/ \E p \in Procs : GetOpenData(p)
    \/ \E p \in Procs : GetReadData(p)
    \/ \E p \in Procs : \E k \in CacheKeys : \E v \in Payloads : SetCall(p, k, v)
    \/ \E p \in Procs : SetAcquire(p)
    \/ \E p \in Procs : SetOpenData(p)
    \/ \E p \in Procs : SetWriteData(p)
    \/ \E p \in Procs : SetOpenMeta(p)
    \/ \E p \in Procs : SetWriteMeta(p)
    \/ \E p \in Procs : \E k \in CacheKeys : DeleteCall(p, k)
    \/ \E p \in Procs : ClearCall(p)
    \/ Tick

\* CacheManager called by concurrent tasks of one event loop.
SpecCache == InitCache /\ [][NextCache]_vars

\* Fairness of the event loop: a step that can be taken is eventually taken (a
\* ready task is resumed, a pending extraction or file operation ends).
\* The limiter under load: MaxPages batches of one page each, nothing cached.
InitFair ==
    /\ Init
    /\ numPages = MaxPages
    /\ batch_size = 1
    /\ \A p \in 1..MaxPages : cache[p] = NoEntry

SpecFair == InitFair /\ [][Next]_vars /\ WF_vars(Next)

\* ------------------------------------------------------------------ _combine_results
SeqsUpTo(S, n) == UNION {[1..k -> S] : k \in 0..n}

\* Page strings of one line: empty, white space only, or text.
SingleLines == {<<l>> : l \in {Blank, Space, 1, 2, 3}}

\* Page strings of up to MaxLines lines, blank lines among them.
MultiLines == UNION {[1..k -> {Blank, 1}] : k \in 1..MaxLines}

CombineInputs == SeqsUpTo(SingleLines, MaxResults) \cup SeqsUpTo(MultiLines, MaxMultiResults)

\* combined = self._combine_results(results)
CombineCall ==
    /\ combineOutput = NoContent
    /\ combineOutput' = CombineResults(combineInput)
    /\ UNCHANGED combineInput
    /\ UNCHANGED <<pipeVars, cmVars, parseVars, keyVars, asyncVars>>

InitCombine ==
    /\ combineInput \in CombineInputs
    /\ combineOutput = NoContent
    /\ PipelineIdle
    /\ CacheManagerIdle
    /\ EmptyDirectory
    /\ ttl = NoTTL
    /\ opsLeft = 0
    /\ ParseUnused
    /\ KeysUnused
    /\ AsyncUnused

NextCombine == CombineCall

SpecCombine == InitCombine /\ [][NextCombine]_vars

\* ------------------------------------------------------------------ AsyncBatcher specifications
\* A batcher of either class, with the other components at rest.
InitBatcher ==
    /\ BatcherIdle
    /\ batcher \in [impl : BatcherImpls, batch_size : 1..MaxBatcherSize]
    /\ retry = NoRetry
    /\ PipelineIdle
    /\ CacheManagerIdle
    /\ EmptyDirectory
    /\ ttl = NoTTL
    /\ opsLeft = 0
    /\ ParseUnused
    /\ KeysUnused
    /\ CombineUnused

NextBatcher ==
    \/ \E c \in Adders : Add(c)
    \/ CollectBatch
    \/ \E o \in ProcessOutcomes : ProcessEnd(o)

SpecBatcher == InitBatcher /\ [][NextBatcher]_vars

\* The event loop runs the processing task when it is ready, and process_func
\* ends.
SpecBatcherFair ==
    /\ InitBatcher
    /\ [][NextBatcher]_vars
    /\ WF_vars(CollectBatch)
    /\ WF_vars(\E o \in ProcessOutcomes : ProcessEnd(o))

\* One run_with_retry call of either module.
InitRetry ==
    /\ retry \in {[NoRetry EXCEPT !.impl = i, !.max_retries = m] :
                     i \in BatcherImpls, m \in 0..MaxRetries}
    /\ BatcherIdle
    /\ batcher = [impl |-> "async_batcher", batch_size |-> 1]
    /\ PipelineIdle
    /\ CacheManagerIdle
    /\ EmptyDirectory
    /\ ttl = NoTTL
    /\ opsLeft = 0
    /\ ParseUnused
    /\ KeysUnused
    /\ CombineUnused

NextRetry ==
    \/ RetryCall
    \/ \E o \in AttemptOutcomes : RetryAttempt(o)
    \/ RetryWake

SpecRetry == InitRetry /\ [][NextRetry]_vars

\* ------------------------------------------------------------------ claims
Pages == 1..MaxPages

\* C1: the per-page result list of a request that returned holds exactly one
\* entry for every page index: each finished batch reports the indices
\* 0..len(batch)-1 once each, and the flattened list has numPages entries.
C1_ExactlyOneResultPerPage ==
    /\ \A t \in LiveTasks :
          pc[t] = "done" =>
              [i \in 1..Len(batch_result[t]) |-> batch_result[t][i].idx]
                  = [i \in 1..BatchLen(t) |-> i - 1]
    /\ \A r \in Runs : outcome[r] = "ok" => Len(results[r]) = numPages

\* C2: when the first request and the second, served from the cache the first
\* one wrote, both return, the second content equals the first.
C2_SecondRunSameContent ==
    (outcome[1] = "ok" /\ outcome[2] = "ok") => content[2] = content[1]

\* C3: after a first request that returned, the second request makes no
\* extractor.extract call.
C3_SecondRunNoExtraction ==
    outcome[1] = "ok" => calls[2] = 0

C3_Witness ==
    /\ outcome[1] = "ok"
    /\ outcome[2] = "ok"
    /\ calls[1] >= 2
    /\ \E t \in LiveTasks : Len(cached_pages[t]) >= 2

\* C4: never more than max_concurrent tasks are inside the block guarded by the
\* limiter, hence never more than max_concurrent extract calls are active.
C4_LimiterBound ==
    /\ Cardinality({t \in Tasks : InBlock(t)}) <= max_concurrent
    /\ Cardinality({t \in Tasks : pc[t] = "extracting"}) <= max_concurrent

C4_Witness ==
    /\ max_concurrent >= 2
    /\ Cardinality({t \in Tasks : pc[t] = "extracting"}) = max_concurrent
    /\ waiters # <<>>

\* What _get_cached_pages and _process_uncached_pages give for batch t when it
\* runs alone on cache contents c.
RECURSIVE ExpectedHits(_, _, _)
ExpectedHits(t, k, c) ==
    IF k >= BatchLen(t) THEN <<>>
    ELSE (IF IsHit(c[PageNum(t, k)])
          THEN <<[idx |-> k, content |-> c[PageNum(t, k)].content]>> ELSE <<>>)
         \o ExpectedHits(t, k + 1, c)

RECURSIVE ExpectedMisses(_, _, _)
ExpectedMisses(t, k, c) ==
    IF k >= BatchLen(t) THEN <<>>
    ELSE (IF IsHit(c[PageNum(t, k)]) THEN <<>> ELSE <<[idx |-> k, page |-> PageNum(t, k)]>>)
         \o ExpectedMisses(t, k + 1, c)

ExpectedBatch(t, c) ==
    AllResults(ExpectedHits(t, 0, c), ExpectedMisses(t, 0, c),
               ExtractResult(ExpectedMisses(t, 0, c)))

ExpectedResults(c) ==
    Flatten([t \in 1..NumBatches(numPages, batch_size) |-> Contents(ExpectedBatch(t, c))])

StrictlyIncreasingIdx(res) ==
    \A i \in 1..Len(res) : \A j \in 1..Len(res) : i < j => res[i].idx < res[j].idx

C7_NoPartialOutput ==
    /\ \A r \in Runs : outcome[r] = "failed" => (content[r] = NoContent /\ results[r] = <<>>)
    /\ (phase = "done") => \A t \in LiveTasks : pc[t] = "done"

\* No step removes or alters an entry that holds a page's content.
C7_EntriesPreserved ==
    \A p \in Pages : cache[p].state = "ok" => cache'[p] = cache[p]

\* The lookup of a page whose entry holds content is a hit with that content.
C7_HitOnLookup ==
    \A t \in Tasks :
        (/\ pc[t] = "lookup"
         /\ Len(cached_pages'[t]) + Len(pages_to_process'[t]) = LookupIdx(t) + 1
         /\ cache[PageNum(t, LookupIdx(t))].state = "ok")
        => cached_pages'[t] = Append(cached_pages[t],
                                     [idx |-> LookupIdx(t),
                                      content |-> cache[PageNum(t, LookupIdx(t))].content])

C8_PermitsReleased ==
    /\ semValue \in 0..max_concurrent
    /\ max_concurrent - semValue = Cardinality({t \in Tasks : InBlock(t)})
    /\ Quiescent => (semValue = max_concurrent /\ waiters = <<>>)

C8_Witness ==
    /\ run >= 1
    /\ Quiescent
    /\ semValue = max_concurrent
    /\ \E t \in LiveTasks : pc[t] = "failed" /\ error[t] = "CacheError"
    /\ \E t \in LiveTasks : pc[t] = "done"

\* A task finding no free permit joins the waiters; a waiter leaves only into
\* the guarded block.
C9_SuspendedNotDropped ==
    \A t \in Tasks :
        /\ (pc[t] = "created" /\ pc'[t] # "created" /\ ~CanAcquire)
              => (pc'[t] = "waiting" /\ \E i \in 1..Len(waiters') : waiters'[i] = t)
        /\ (pc[t] = "waiting" /\ pc'[t] # "waiting") => pc'[t] = "lookup"

\* C9: a task that finds no free permit is queued, not failed or dropped; it
\* leaves the queue only into the guarded block; and every queued task
\* eventually gets there.
C9_WaitersEventuallyRun ==
    /\ [][C9_SuspendedNotDropped]_vars
    /\ \A t \in Tasks : (pc[t] = "waiting") ~> (pc[t] \in {"lookup", "extract", "extracting", "write", "done", "failed"})

C9_Witness ==
    \E t \in LiveTasks : waited[t] /\ pc[t] = "done" /\ batch_result[t] # <<>>


\* C5: under any interleaving of CacheManager.set with concurrent
\* CacheManager.get calls, no get reads an empty or truncated file: none ends in
\* the CacheError that json.loads raises on a file opened for writing and not
\* yet written.
C5_NoPartialRead ==
    \A p \in Procs : ~(cmRet[p].kind = "CacheError" /\ cmRet[p].cause = "JSONDecodeError")

\* C10: a parse call on a missing, unreadable or empty document does not raise:
\* it returns a result with empty content and a non-empty errors list, having
\* made no rasterizer call and no extraction call.
C10_InvalidInputFailureResult ==
    \A c \in Callers :
        (fileState \in {"missing", "unreadable", "empty"} /\ parseRet[c].kind # "none")
            => /\ parseRet[c].kind = "result"
               /\ parseRet[c].content = ""
               /\ parseRet[c].errors > 0
               /\ rasterCalls[c] = 0
               /\ processCalls[c] = 0


\* C11: when the rasterizer fails for a valid input file, the parse call returns
\* a result with empty content and an error description; the failure does not
\* leave parse as an exception.
C11_RasterizerFailureResult ==
    \A c \in Callers :
        (fileState = "valid" /\ parseLog[c].rasterFailed)
            => /\ parseRet[c].kind = "result"
               /\ parseRet[c].content = ""
               /\ parseRet[c].errors > 0

\* C12: a parse call given PdfOptions(page_range=(s, e)) invokes the rasterizer
\* with first_page = s and last_page = e, and the page count of its result is
\* the number of document pages in that range.
C12_PageRangePassed ==
    \A c \in Callers :
        (parserKind = "pdf" /\ parseLog[c].options # NoRange /\ rasterCalls[c] > 0)
            => /\ parseLog[c].passed = parseLog[c].options
               /\ parseRet[c].kind = "result"
                     => parseRet[c].pages = RasterPages(parseLog[c].options)

\* C13: the key of a page depends only on the document and the page's number
\* in the document: over all runs, whole-document or page-range, a document
\* page is given one key only, and two different document pages never get the
\* same key.
C13_PageKeyStable ==
    /\ \A dp \in DOMAIN pageKeys : Cardinality(pageKeys[dp]) <= 1
    /\ \A dp \in DOMAIN pageKeys : \A dq \in DOMAIN pageKeys :
          dp # dq => pageKeys[dp] \cap pageKeys[dq] = {}


\* A get of p, on which no other call has acted, returns in this step, and the
\* entry of its key is complete on disk.
LoneGetReturns(p) ==
    /\ cmProc[p].op = "get"
    /\ cmProc'[p].op = "idle"
    /\ ~cmHist[p].overlapped
    /\ metaFile[cmProc[p].key] # NoFile
    /\ inode[metaFile[cmProc[p].key]] # EmptyContent
    /\ inode[dataFile[cmProc[p].key]] # EmptyContent

\* The time the entry of key k on disk was written.
CreatedOnDisk(k) == inode[metaFile[k]] - 1

\* With a TTL configured, the get returns the entry and leaves it if its age is
\* within the TTL when the get returns, and returns absent and removes both
\* files if its age exceeded the TTL when the get was called.
TTLHonouredBy(p) ==
    LET k == cmProc[p].key
    IN /\ clock - CreatedOnDisk(k) <= ttl
            => /\ cmRet'[p] = RetValue(inode[dataFile[k]])
               /\ dataFile'[k] = dataFile[k]
               /\ metaFile'[k] = metaFile[k]
       /\ cmHist[p].called - CreatedOnDisk(k) > ttl
            => /\ cmRet'[p] = RetAbsent
               /\ dataFile'[k] = NoFile
               /\ metaFile'[k] = NoFile

\* C14: with a TTL D configured, an entry written at time T is returned by a get
\* at every time t with t - T <= D, and at every time t with t - T > D the get
\* returns absent and the entry's data and metadata files are removed.
C14_TTLHonoured ==
    [][\A p \in Procs : (ttl # NoTTL /\ LoneGetReturns(p)) => TTLHonouredBy(p)]_vars

\* The TTL of the set that stands for key k has not elapsed.
TTLNotElapsed(k) == ttl = NoTTL \/ clock - lastSet[k].created <= ttl

\* While a completed set stands for a key within its TTL, its payload is the
\* content of the key's data file.
EntryIntact ==
    \A k \in CacheKeys :
        (lastSet[k] # NoSet /\ TTLNotElapsed(k))
            => (dataFile[k] # NoFile /\ inode[dataFile[k]] = lastSet[k].payload)

\* A get called while a completed set stood for its key, returning while that
\* set still stands within its TTL, returns the set's payload.
GetReturnsLastSet ==
    \A p \in Procs :
        (/\ cmProc[p].op = "get"
         /\ cmProc'[p].op = "idle"
         /\ lastSet[cmProc[p].key] # NoSet
         /\ cmHist[p].seen = lastSet[cmProc[p].key]
         /\ TTLNotElapsed(cmProc[p].key))
            => cmRet'[p] = RetValue(lastSet[cmProc[p].key].payload)

\* C15: once set(key, payload) has completed and no delete, clear or later set
\* of the key has run and the TTL has not elapsed, get(key) returns exactly
\* payload, whatever get calls overlapped the set.
C15_GetAfterSet == []EntryIntact /\ [][GetReturnsLastSet]_vars


\* A batch that CacheError failed had fetched its missed pages: the error is
\* that of a cache write, never that of a lookup.
CacheErrorIsWriteError ==
    \A t \in Tasks : (pc[t] = "failed" /\ error[t] = "CacheError") => extracted[t] # <<>>

\* A batch that returned made every cache write of its missed pages.
NoWriteSkipped ==
    \A t \in Tasks :
        (pc[t] = "done" /\ pages_to_process[t] # <<>>)
            => written[t] = CacheSetCount(pages_to_process[t])

\* C16: a failed cache read of one page does not abort the batch (the page is
\* treated as a miss and extracted afresh), while a failed cache write is
\* surfaced to the caller.
C16_ReadFailureIsMiss == CacheErrorIsWriteError /\ NoWriteSkipped


\* C17: in the default BaseParser._parse, an exception raised by a hook is
\* converted into a returned result with a non-empty errors list exactly when
\* its type is one of EXPECTED_EXCEPTIONS; any other exception propagates to
\* the caller of parse.
C17_ExpectedExceptionsOnly ==
    \A c \in Callers :
        (parseLog[c].hookExc # "none" /\ parseProc[c].pos = "idle")
            => IF parseLog[c].hookExc \in ExpectedExceptions
               THEN parseRet[c].kind = "result" /\ parseRet[c].errors > 0
               ELSE parseRet[c] = Raised(parseLog[c].hookExc)

CeilDiv(n, b) == CHOOSE m \in 0..n : m * b >= n /\ \A j \in 0..n : j * b >= n => m <= j

\* C19: for N pages and batch_size B >= 1, _process_pages forms ceil(N/B)
\* batches, each of size B except possibly the last; the batches concatenated in
\* order are the pages 0..N-1 in order, their page numbers 1..N, and each batch
\* task is given the pages and page numbers of its batch.
C19_BatchPartition ==
    LET bs == MakeBatches(0, numPages, batch_size)
    IN /\ Len(bs) = CeilDiv(numPages, batch_size)
       /\ \A t \in 1..Len(bs) :
             /\ Len(bs[t].batch) \in 1..batch_size
             /\ t < Len(bs) => Len(bs[t].batch) = batch_size
             /\ Len(bs[t].page_nums) = Len(bs[t].batch)
       /\ Flatten([t \in 1..Len(bs) |-> bs[t].batch]) = [i \in 1..numPages |-> i - 1]
       /\ Flatten([t \in 1..Len(bs) |-> bs[t].page_nums]) = [i \in 1..numPages |-> i]
       /\ \A t \in Tasks :
             pc[t] # "none" =>
                 /\ t <= Len(bs)
                 /\ BatchLen(t) = Len(bs[t].batch)
                 /\ \A k \in 0..(BatchLen(t) - 1) : PageNum(t, k) = bs[t].page_nums[k + 1]

\* Three pages in batches of two: a full batch and a last batch of one page,
\* both processed.
C19_Witness ==
    /\ numPages = 3
    /\ batch_size = 2
    /\ Len(MakeBatches(0, numPages, batch_size)) = 2
    /\ Len(MakeBatches(0, numPages, batch_size)[2].batch) = 1
    /\ pc[1] = "done"
    /\ pc[2] = "done"


\* test_combine_results: ["Line 1", "", "Line 2", "", "", "Line 3"]
ExampleResults == <<<<1>>, <<Blank>>, <<2>>, <<Blank>>, <<Blank>>, <<3>>>>

\* C20: the output of _combine_results never has two consecutive blank
\* (white-space only) lines and, unless it is the empty string, never starts
\* with a blank line; for ["Line 1", "", "Line 2", "", "", "Line 3"] it is
\* exactly "Line 1\n\nLine 2\n\nLine 3".
C20_NoBlankRuns ==
    combineOutput # NoContent =>
        /\ \A i \in 1..(Len(combineOutput) - 1) :
              ~(IsBlank(combineOutput[i]) /\ IsBlank(combineOutput[i + 1]))
        /\ combineOutput # EmptyStr => ~IsBlank(combineOutput[1])
        /\ combineInput = ExampleResults => combineOutput = <<1, Blank, 2, Blank, 3>>

\* The example of the test, combined.
C20_Witness ==
    /\ combineInput = ExampleResults
    /\ combineOutput = <<1, Blank, 2, Blank, 3>>


\* A page content that neither starts nor ends with a blank line: its blank
\* lines all lie inside it.
BlankLinesInside(s) == ~IsBlank(s[1]) /\ ~IsBlank(s[Len(s)])

\* C21: _combine_results collapses blank lines only at the boundaries between
\* page contents: when every blank line of the input lies inside a page's
\* content, the output is the page contents as they were, one blank line
\* between two pages.
C21_InternalBlankLinesKept ==
    (combineOutput # NoContent /\ \A i \in 1..Len(combineInput) : BlankLinesInside(combineInput[i]))
        => combineOutput = JoinDoubleNewline(combineInput)


\* The items of the batches given to process_func so far, in order.
HandedItems == Flatten([g \in 1..Len(batchLog.handed) |-> batchLog.handed[g].items])

\* C22: in batch mode the items are given to process_func in the order they
\* were added, in groups of at most batch_size, and an add call that returns
\* returns the element of process_func's result list at the position its item
\* had in its group.
C22_BatchOrderAndResults ==
    /\ HandedItems = SubSeq(batchLog.added, 1, Len(HandedItems))
    /\ \A g \in 1..Len(batchLog.handed) :
          Len(batchLog.handed[g].items) \in 1..batcher.batch_size
    /\ \A c \in Adders :
          futures[c].state = "result" =>
              \E g \in 1..Len(batchLog.handed) :
                  \E i \in 1..Len(batchLog.handed[g].items) :
                      /\ batchLog.handed[g].items[i] = c
                      /\ i <= Len(batchLog.handed[g].results)
                      /\ futures[c].value = batchLog.handed[g].results[i]

\* test_async_batcher_basic: the items 1, 2, 3, 4 doubled with batch_size 3, in
\* the groups [1, 2, 3] and [4].
C22_Witness ==
    /\ batcher.batch_size = 3
    /\ batchLog.added = <<1, 2, 3, 4>>
    /\ Len(batchLog.handed) = 2
    /\ batchLog.handed[1].items = <<1, 2, 3>>
    /\ batchLog.handed[2].items = <<4>>
    /\ \A c \in Adders : futures[c] = FutureResult(2 * c)

\* C30: every add call eventually completes: whatever process_func does, the
\* awaiting caller eventually receives a result or an exception.
C30_AddCompletes ==
    \A c \in Adders :
        (futures[c].state = "pending") ~> (futures[c].state \in {"result", "exception"})


\* The calls of func one run_with_retry call has made.
RetryCalls == Len(retry.outcomes)

\* Every call of func before the last one failed.
EarlierAttemptsFailed == \A i \in 1..(RetryCalls - 1) : retry.outcomes[i] # "ok"

\* C23: func is called at most max_retries + 1 times; a call that
\* returned made its last call of func the first that succeeded; a call that
\* raised made all max_retries + 1 calls and raised the exception of the last.
C23_RetryUntilSuccess ==
    /\ RetryCalls <= retry.max_retries + 1
    /\ retry.state = "returned" =>
          /\ RetryCalls >= 1
          /\ retry.outcomes[RetryCalls] = "ok"
          /\ EarlierAttemptsFailed
    /\ retry.state = "raised" =>
          /\ RetryCalls = retry.max_retries + 1
          /\ retry.exc = retry.outcomes[RetryCalls]
          /\ EarlierAttemptsFailed


\* Batch task t has called extractor.extract in the current request.
HasCalledExtract(t) ==
    \/ pc[t] \in {"extracting", "write"}
    \/ extracted[t] # <<>>
    \/ pc[t] = "failed" /\ error[t] = "ExtractionError"

\* The pages of batch t without a usable entry when the request started, in
\* page order.
MissedAtStart(t) ==
    LET NoEntryAtStart(p) == cacheAtStart[p].state # "ok"
    IN SelectSeq([k \in 1..BatchLen(t) |-> PageNum(t, k - 1)], NoEntryAtStart)

\* C24: per batch, _process_batch makes no extractor.extract call when every
\* page of the batch is a cache hit and otherwise exactly one call, never a
\* second one: with the single image when exactly one page missed, and with the
\* list of all missed images, in page order, when more than one page missed.
C24_OneExtractCallPerBatch ==
    run > 0 =>
        /\ calls[run] = Cardinality({t \in LiveTasks : HasCalledExtract(t)})
        /\ \A t \in LiveTasks :
              /\ HasCalledExtract(t) => MissedAtStart(t) # <<>>
              /\ pc[t] = "done" => (HasCalledExtract(t) <=> MissedAtStart(t) # <<>>)
              /\ HasCalledExtract(t) =>
                    [i \in 1..Len(pages_to_process[t]) |-> pages_to_process[t][i].page]
                        = MissedAtStart(t)
              /\ extracted[t] # <<>> =>
                    extracted[t] = IF Len(MissedAtStart(t)) = 1
                                   THEN PageText(MissedAtStart(t)[1])
                                   ELSE ExtractBatch(MissedAtStart(t))

\* A first request made its one extraction call for its batch of two pages; the
\* batch of the second request, all hits, returned without a call.
C24_Witness ==
    /\ numPages = 2
    /\ batch_size = 2
    /\ run = 2
    /\ outcome[1] = "ok"
    /\ calls[1] = 1
    /\ calls[2] = 0
    /\ pc[1] = "done"
    /\ ~HasCalledExtract(1)

\* C25: when _process_uncached_pages has returned normally, every page of the
\* batch that was a miss has the entry {content, page} under its key, the content
\* being the string the batch's one extraction call returned: with more than one
\* missed page, the same combined string in each entry.
C25_MissedPagesCached ==
    \A t \in LiveTasks :
        (pc[t] = "done" /\ pages_to_process[t] # <<>>) =>
            /\ extracted[t] = ExtractResult(pages_to_process[t])
            /\ \A i \in 1..Len(pages_to_process[t]) :
                  cache[pages_to_process[t][i].page]
                      = OkEntry(extracted[t], pages_to_process[t][i].page)

\* A batch with two missed pages returned: both entries hold the combined string.
C25_Witness ==
    \E t \in LiveTasks :
        /\ pc[t] = "done"
        /\ Len(pages_to_process[t]) = 2
        /\ cache[pages_to_process[t][1].page].content = ExtractBatch(MissedAtStart(t))
        /\ cache[pages_to_process[t][2].page].content = ExtractBatch(MissedAtStart(t))

\* C27: once a request has failed because a batch's extraction raised, no other
\* batch of that request starts an extractor.extract call or writes a cache
\* entry.
C27_FailFastAbort ==
    [][(phase = "failed" /\ raised[run] = "ExtractionError")
           => (calls' = calls /\ cache' = cache)]_vars


\* C26: for any sequence or interleaving of parse, parse_markdown and
\* parse_json calls on one parser, settings.output_format is not changed for
\* good: whenever no call is in progress it has the value it had before the calls.
C26_FormatRestored ==
    (\A c \in Callers : parseProc[c].pos = "idle") => output_format = parseHist.format

\* C28: with settings.use_cache = False a PDFParser.parse call makes no cache
\* read and no cache write at all, of the result cache or of the page cache.
C28_NoCacheWhenDisabled ==
    (~use_cache /\ parserKind = "pdf") =>
        \A c \in Callers :
            /\ parseLog[c].cacheReads = 0
            /\ parseLog[c].cacheWrites = 0
            /\ parseLog[c].pageLookups = 0

\* C29: BaseParser.parse never stores in the cache a result whose errors list
\* is non-empty.
C29_NoFailureCached ==
    \A k \in ResultKeys : resultCache[k].kind = "result" => resultCache[k].errors = 0

====
